---- MODULE Spec2Model ----
(***************************************************************************)
(* The Lucas asset-pricing solver of notebooks/Lucas-Asset-Pricing-Model:  *)
(* the classes DivProcess and LucasEconomy, the one-period pricing         *)
(* operator priceOnePeriod and the fixed-point driver solve.               *)
(*                                                                         *)
(* Numbers.  A Python float is a record [k, m, e]: k = "fin" with value    *)
(* m * 2^e, the mantissa m odd (or 0) and of at most Mant bits, every      *)
(* operation rounding its exact result to the nearest such number as a     *)
(* binary float operation does; k = "nan"; or k = "inf" with m the sign.   *)
(* Log-dividends are whole numbers of bits: np.exp and np.log are taken to *)
(* base 2, so that exp, the dividend ratio and the CRRA marginal utility   *)
(* of an integer CRRA are exact powers of two, as they are in binary       *)
(* floating point.                                                         *)
(***************************************************************************)
EXTENDS Integers, Sequences, FiniteSets, TLC

\* ------------------------------------------------------------ floats
\* Mantissa bits of the model's floats (a double has 53).
Mant == 12
\* Bits kept below the larger operand when a sum or a quotient is formed.
Guard == 30 - Mant

Abs(n) == IF n < 0 THEN 0 - n ELSE n
Sign(n) == IF n > 0 THEN 1 ELSE IF n < 0 THEN -1 ELSE 0
Max(a, b) == IF a >= b THEN a ELSE b
Min(a, b) == IF a <= b THEN a ELSE b

RECURSIVE BitLen(_)
BitLen(n) == IF n = 0 THEN 0 ELSE 1 + BitLen(n \div 2)

\* n / d for d > 0, to the nearest integer
RDiv(n, d) == Sign(n) * ((2 * Abs(n) + d) \div (2 * d))

RECURSIVE Strip(_, _)
Strip(m, e) ==
    IF m = 0 THEN [k |-> "fin", m |-> 0, e |-> 0]
    ELSE IF m % 2 = 0 THEN Strip(m \div 2, e + 1)
    ELSE [k |-> "fin", m |-> m, e |-> e]

\* the float nearest to m * 2^e
Round(m, e) ==
    LET drop == BitLen(Abs(m)) - Mant
    IN  IF drop <= 0 THEN Strip(m, e) ELSE Strip(RDiv(m, 2^drop), e + drop)

NaN == [k |-> "nan", m |-> 0, e |-> 0]
PosInf == [k |-> "inf", m |-> 1, e |-> 0]
NegInf == [k |-> "inf", m |-> -1, e |-> 0]
Flt(n) == Round(n, 0)
Zero == Flt(0)
One == Flt(1)
\* the float 1/2
Half == Round(1, -1)

IsNaN(a) == a.k = "nan"
IsFin(a) == a.k = "fin"

\* a + b
FAdd(a, b) ==
    IF IsNaN(a) \/ IsNaN(b) THEN NaN
    ELSE IF a.k = "inf" /\ b.k = "inf" THEN (IF a.m = b.m THEN a ELSE NaN)
    ELSE IF a.k = "inf" THEN a
    ELSE IF b.k = "inf" THEN b
    ELSE IF a.m = 0 THEN b
    ELSE IF b.m = 0 THEN a
    ELSE LET lo == Max(Min(a.e, b.e), Max(a.e, b.e) - Guard + 1)
             al(x) == IF x.e >= lo THEN x.m * 2^(x.e - lo)
                      ELSE IF lo - x.e > Mant + 1 THEN 0
                      ELSE RDiv(x.m, 2^(lo - x.e))
         IN  Round(al(a) + al(b), lo)

\* -a
FNeg(a) == IF IsNaN(a) THEN NaN ELSE [a EXCEPT !.m = 0 - a.m]

\* a - b
FSub(a, b) == FAdd(a, FNeg(b))

\* a * b
FMul(a, b) ==
    IF IsNaN(a) \/ IsNaN(b) THEN NaN
    ELSE IF a.k = "inf" \/ b.k = "inf"
         THEN (IF a.m = 0 \/ b.m = 0 THEN NaN
               ELSE IF Sign(a.m) = Sign(b.m) THEN PosInf ELSE NegInf)
    ELSE Round(a.m * b.m, a.e + b.e)

\* a / b; numpy divides by zero to nan or an infinity, with a warning
FDiv(a, b) ==
    IF IsNaN(a) \/ IsNaN(b) THEN NaN
    ELSE IF a.k = "inf" /\ b.k = "inf" THEN NaN
    ELSE IF a.k = "inf"
         THEN (IF Sign(b.m) >= 0 THEN a ELSE FNeg(a))
    ELSE IF b.k = "inf" THEN Zero
    ELSE IF b.m = 0
         THEN (IF a.m = 0 THEN NaN ELSE IF a.m > 0 THEN PosInf ELSE NegInf)
    ELSE Round(Sign(a.m) * Sign(b.m) * ((Abs(a.m) * 2^Guard) \div Abs(b.m)),
               a.e - b.e - Guard)

RECURSIVE ISqrt(_)
ISqrt(n) ==
    IF n < 2 THEN n
    ELSE LET s == 2 * ISqrt(n \div 4)
         IN  IF (s + 1) * (s + 1) <= n THEN s + 1 ELSE s

\* sqrt(a)
FSqrt(a) ==
    IF IsNaN(a) THEN NaN
    ELSE IF a.k = "inf" THEN (IF a.m > 0 THEN a ELSE NaN)
    ELSE IF a.m < 0 THEN NaN
    ELSE IF a.m = 0 THEN Zero
    ELSE LET odd == a.e % 2
             sh == Guard - 2 - ((Guard - 2) % 2)
         IN  Round(ISqrt(a.m * 2^(odd + sh)), (a.e - odd - sh) \div 2)

\* a > b and a <= b, the two comparisons solve makes; both are false on NaN
FGt(a, b) ==
    IF IsNaN(a) \/ IsNaN(b) THEN FALSE
    ELSE IF a.k = "inf" /\ b.k = "inf" THEN a.m > b.m
    ELSE FSub(a, b).m > 0

FLe(a, b) ==
    IF IsNaN(a) \/ IsNaN(b) THEN FALSE
    ELSE IF a.k = "inf" /\ b.k = "inf" THEN a.m <= b.m
    ELSE FSub(a, b).m <= 0

\* the float 2^x
Exp(x) == [k |-> "fin", m |-> 1, e |-> x]

\* Largest exponent of the floats that np.exp and np.log work on (a double
\* has 1024), scaled down.
ExpMax == 16
\* np.exp on a whole number of bits: inf above the range of a float, 0.0 below
NpExp(x) ==
    IF x > ExpMax THEN PosInf ELSE IF x < 0 - ExpMax THEN Zero ELSE Exp(x)
\* np.log on a dividend level (in the model 0, inf or a power of two): -inf at
\* 0.0, inf at inf, nan on a negative number, each with a warning at most
NpLog(d) ==
    IF IsNaN(d) THEN NaN
    ELSE IF d.k = "inf" THEN (IF d.m > 0 THEN PosInf ELSE NaN)
    ELSE IF d.m < 0 THEN NaN
    ELSE IF d.m = 0 THEN NegInf
    ELSE Flt(d.e)


\* c ** -gam for a whole gam >= 0 (HARK.utilities.CRRAutilityP)
RECURSIVE FPow(_, _)
FPow(c, n) == IF n = 0 THEN One ELSE FMul(c, FPow(c, n - 1))
CRRAutilityP(c, gam) == FDiv(One, FPow(c, gam))

\* the sum of a sequence of floats, left to right
RECURSIVE FSum(_)
FSum(s) == IF Len(s) = 0 THEN Zero
           ELSE IF Len(s) = 1 THEN s[1]
           ELSE FAdd(FSum(SubSeq(s, 1, Len(s) - 1)), s[Len(s)])

\* np.linalg.norm of a vector
Norm2(v) == FSqrt(FSum([i \in 1..Len(v) |-> FMul(v[i], v[i])]))

\* ------------------------------------------------- pricing functions
\* A pricing function object: HARK's ConstantFunction (value) or LinearInterp
\* (x_list, y_list, lower_extrap); NoneFn stands for Python's None.
MkFn(kind, value, xs, ys, low) ==
    [kind |-> kind, value |-> value, x_list |-> xs, y_list |-> ys,
     lower_extrap |-> low]
NoneFn == MkFn("none", Zero, <<>>, <<>>, FALSE)
ConstantFunction(value) == MkFn("const", value, <<>>, <<>>, FALSE)
LinearInterp(xs, ys, low) == MkFn("lin", Zero, xs, ys, low)

\* np.searchsorted(a, x) on an increasing array: how many elements lie below x
SearchSorted(a, x) == Cardinality({j \in 1..Len(a) : a[j] < x})

\* f(x) at one log-dividend x.  LinearInterp takes the segment found by
\* searchsorted on x_list[:-1] (the first one below the grid, the last one
\* above it), and gives nan below x_list[0] unless lower_extrap is set.
EvalLin(f, x) ==
    LET xs == f.x_list
        ys == f.y_list
        i == Max(SearchSorted(SubSeq(xs, 1, Len(xs) - 1), x), 1)
        alpha == FDiv(Flt(x - xs[i]), Flt(xs[i + 1] - xs[i]))
        y == FAdd(FMul(FSub(One, alpha), ys[i]), FMul(alpha, ys[i + 1]))
    IN  IF ~f.lower_extrap /\ x < xs[1] THEN NaN ELSE y

Eval(f, x) == IF f.kind = "const" THEN f.value ELSE EvalLin(f, x)

\* f(x) at a float x, which may be an infinity: the same segment search and
\* the same arithmetic, on floats
EvalF(f, x) ==
    IF f.kind = "const" THEN f.value
    ELSE LET xs == f.x_list
             ys == f.y_list
             below == Cardinality({j \in 1..(Len(xs) - 1) : FGt(x, Flt(xs[j]))})
             i == Max(IF IsNaN(x) THEN Len(xs) - 1 ELSE below, 1)
             alpha == FDiv(FSub(x, Flt(xs[i])), Flt(xs[i + 1] - xs[i]))
             y == FAdd(FMul(FSub(One, alpha), ys[i]), FMul(alpha, ys[i + 1]))
         IN  IF ~f.lower_extrap /\ FGt(Flt(xs[1]), x) THEN NaN ELSE y

\* f(grid) on an array of log-dividends
EvalOn(f, grid) == [i \in 1..Len(grid) |-> Eval(f, grid[i])]

\* copy(f): a new object with the same attributes
Copy(f) == f

\* --------------------------------------------------------- DivProcess
\* Normal(mu, sigma).approx(N): the Gauss-Hermite nodes sqrt(2)*sigma*x + mu and
\* weights w/sqrt(pi); for N = 1 the node mu, for N = 2 the nodes mu -+ sigma.
ApproxX(mu, sigma, N) == IF N = 1 THEN <<mu>> ELSE <<mu - sigma, mu + sigma>>
ApproxPmf(N) == IF N = 1 THEN <<One>> ELSE <<Half, Half>>

\* DivProcess.__init__: stores its arguments and the discretised shock; no
\* argument is checked.
NewDivProcess(alpha, shock_sd, shock_mean, nApprox) ==
    [made |-> TRUE, alpha |-> alpha, shock_sd |-> shock_sd,
     shock_mean |-> shock_mean, nApprox |-> nApprox,
     X |-> ApproxX(shock_mean, shock_sd, nApprox), pmf |-> ApproxPmf(nApprox)]
NoDiv ==
    [made |-> FALSE, alpha |-> 0, shock_sd |-> 0, shock_mean |-> 0,
     nApprox |-> 0, X |-> <<>>, pmf |-> <<>>]

\* np.linspace(a, b, n), each point rounded down to a whole number of bits
Linspace(a, b, n) == [i \in 1..n |-> a + ((i - 1) * (b - a)) \div (n - 1)]

\* A getLogdGrid that leaves the unconditional mean out.
GetLogdGridNoMean(d, n) == Linspace(0 - 5 * d.shock_sd, 5 * d.shock_sd, n)

\* DivProcess.getLogdGrid(n).  With alpha = 1 the unconditional mean
\* shock_mean/(1-alpha) divides by zero and Python raises ZeroDivisionError;
\* with alpha = 0 the unconditional sd and mean are shock_sd and shock_mean.
GetLogdGridRaises(d) == 1 - d.alpha = 0
GetLogdGrid(d, n) ==
    LET uncond_sd == d.shock_sd
        uncond_mean == d.shock_mean \div (1 - d.alpha)
        g == Linspace(0 - 5 * uncond_sd, 5 * uncond_sd, n)
    IN  [i \in 1..n |-> g[i] + uncond_mean]

\* ------------------------------------------------------- LucasEconomy
\* LucasEconomy.__init__: stores its arguments; no argument is checked.  An
\* economy has the attributes EqlogPfun and EqPfun only once solve has set them.
NewEconomy(CRRA, DiscFac, d) ==
    [made |-> TRUE, CRRA |-> CRRA, DiscFac |-> DiscFac, DivProcess |-> d,
     solved |-> FALSE, EqlogPfun |-> NoneFn]
NoEcon ==
    [made |-> FALSE, CRRA |-> 0, DiscFac |-> Zero, DivProcess |-> 0,
     solved |-> FALSE, EqlogPfun |-> NoneFn]

\* self.uP
uP(ec, c) == CRRAutilityP(c, ec.CRRA)

\* An entry of P_now whose payoff is next period's price without the dividend.
PNowAtNoDividend(ec, d, Pfunc_next, logD) ==
    LET term(j) ==
            LET logD_next == d.alpha * logD + d.X[j]
                SDF == FMul(ec.DiscFac, uP(ec, FDiv(NpExp(logD_next), NpExp(logD))))
            IN  FMul(FMul(SDF, Eval(Pfunc_next, logD_next)), d.pmf[j])
    IN  FSum([j \in 1..d.nApprox |-> term(j)])

\* One entry of P_now in priceOnePeriod: the state logD today, summed over the
\* shock nodes.
PNowAt(ec, d, Pfunc_next, logD) ==
    LET shock_N == d.nApprox
        d_now == NpExp(logD)
        term(j) ==
            LET logD_next == d.alpha * logD + d.X[j]
                d_next == NpExp(logD_next)
                P_next == Eval(Pfunc_next, logD_next)
                SDF == FMul(ec.DiscFac, uP(ec, FDiv(d_next, d_now)))
                Payoff_next == FAdd(P_next, d_next)
            IN  FMul(FMul(SDF, Payoff_next), d.pmf[j])
    IN  FSum([j \in 1..shock_N |-> term(j)])

\* A priceOnePeriod that builds its interpolant with HARK's default
\* lower_extrap = False.
priceOnePeriodNoExtrap(ec, d, Pfunc_next, logDGrid) ==
    LET P_now == [i \in 1..Len(logDGrid) |-> PNowAt(ec, d, Pfunc_next, logDGrid[i])]
    IN  LinearInterp(logDGrid, P_now, FALSE)

\* A priceOnePeriod that hangs its prices on next period's states logDGrid + 1
\* instead of today's.
priceOnePeriodShifted(ec, d, Pfunc_next, logDGrid) ==
    LET P_now == [i \in 1..Len(logDGrid) |-> PNowAt(ec, d, Pfunc_next, logDGrid[i])]
    IN  LinearInterp([i \in 1..Len(logDGrid) |-> logDGrid[i] + 1], P_now, TRUE)

\* A priceOnePeriod that starts from the economy's stored solution, when it has
\* one, instead of from its argument.
priceOnePeriodWarm(ec, d, Pfunc_next, logDGrid) ==
    LET Pf == IF ec.solved THEN ec.EqlogPfun ELSE Pfunc_next
        P_now == [i \in 1..Len(logDGrid) |-> PNowAt(ec, d, Pf, logDGrid[i])]
    IN  LinearInterp(logDGrid, P_now, TRUE)

\* LucasEconomy.priceOnePeriod(Pfunc_next, logDGrid)
priceOnePeriod(ec, d, Pfunc_next, logDGrid) ==
    LET P_now == [i \in 1..Len(logDGrid) |-> PNowAt(ec, d, Pfunc_next, logDGrid[i])]
    IN  LinearInterp(logDGrid, P_now, TRUE)


\* An EqPfun that evaluates EqlogPfun at the dividend level itself.
EqPfunNoLog(ec, d) == EvalF(ec.EqlogPfun, d)

\* self.EqPfun = lambda d: self.EqlogPfun(np.log(d)) on a dividend level d; the
\* lambda reads the economy's EqlogPfun when called
EqPfun(ec, d) == EvalF(ec.EqlogPfun, NpLog(d))

\* ------------------------------------------------------------- bounds
\* Points of the default grid: getLogdGrid's n = 100, scaled down.
GridN == 2
\* Largest maxIter a caller passes (the default is 500).
MaxIterBound == 2

DivIds == {1, 2}
EconIds == {1, 2}

Alphas == {0, 1}
ShockSds == {1}
ShockMeans == {0}
NApproxs == {2}
CRRAs == {1, 2}
\* discount factors 1/2 and, outside (0,1), 3/2
DiscFacs == {Exp(-1), Round(3, -1)}

NoneGrid == [isNone |-> TRUE, a |-> <<>>]
Arr(a) == [isNone |-> FALSE, a |-> a]

\* what callers pass as Pfunc_0: nothing, or a LinearInterp of their own, built
\* with lower_extrap = True or with HARK's default lower_extrap = False
Guess == LinearInterp(<<0, 1>>, <<One, Flt(2)>>, TRUE)
GuessNoExtrap == LinearInterp(<<0, 1>>, <<One, Flt(2)>>, FALSE)
Guesses == {NoneFn, Guess, GuessNoExtrap}
\* what callers pass as logDGrid: nothing, or an increasing array
UnitGrid == Arr(<<0, 1>>)
GridArgs == {NoneGrid, UnitGrid}
\* what callers pass as tol: 9/8, and a number so large that adding 1 to it is
\* lost in rounding
NineEighths == Round(9, -3)
Tols == {NineEighths, Exp(Mant + 2)}
MaxIters == 0..MaxIterBound
\* the arrays of log-dividends at whose levels callers ask for prices: one
\* within the range of np.exp, below, on and above the grids, and one beyond it
LogDArrays == {<<-7, 0, 1, 7>>, <<0 - ExpMax - 1, ExpMax + 1>>}

\* -------------------------------------------------------------- state
VARIABLES
    div,        \* the DivProcess objects
    econ,       \* the LucasEconomy objects
    pc,         \* where the notebook is: inside solve's "loop", or after its
                \* last call: "idle" (an object built), solve "done" or
                \* "raised", priceOnePeriod "priced", getLogdGrid "gridded",
                \* EqPfun "evaluated"
    self,       \* the object the last method was called on
    argPfunc,   \* the caller's object passed as Pfunc_0 / Pfunc_next
    argGrid,    \* the caller's array passed as logDGrid
    tol, maxIter, disp,                       \* solve's other parameters
    norm, Pfunc_0, logDGrid, Pf_0, P_0, it,   \* solve's local variables
    out,        \* the lines solve has printed
    ret,        \* what the caller's last call gave it
    held,       \* the EqPfun the caller took from an economy and kept
    noted,      \* the caller's note of a finished solve: its economy, its
                \* arguments and the EqlogPfun it stored
    history,    \* the simulated population's history: 'aNrm' and 'pLvl' by
                \* period, and 'aLvl' once the notebook has built it
    t_now,      \* the period the loop over giant_list has reached
    giant_list, \* the rows the loop has gathered
    aGro41      \* the growth factor the notebook computes for one period

frame == <<self, argPfunc, argGrid, tol, maxIter, disp>>
locals == <<norm, Pfunc_0, logDGrid, Pf_0, P_0, it>>
lifeCycle == <<history, t_now, giant_list, aGro41>>
vars == <<div, econ, pc, frame, locals, out, ret, held, noted, lifeCycle>>

\* a call's outcome: still running, a returned None, interpolant, grid or
\* array of prices, or an exception
Ret(kind, fn, grid) == [kind |-> kind, fn |-> fn, grid |-> grid, val |-> <<>>]
Prices(val) == [Ret("EqPfun", NoneFn, <<>>) EXCEPT !.val = val]
AttributeError == Ret("AttributeError", NoneFn, <<>>)
Pending == Ret("pending", NoneFn, <<>>)
ReturnedNone == Ret("None", NoneFn, <<>>)
Raised == Ret("ZeroDivisionError", NoneFn, <<>>)

\* the function object `lambda d: self.EqlogPfun(np.log(d))`: the economy its
\* `self` is, and (for the record) the EqlogPfun that economy had when the
\* lambda was made
Closure(e, f) == [self |-> e, made |-> f]
NoClosure == Closure(0, NoneFn)
Note(e, f, g, t, m, fn) ==
    [self |-> e, Pfunc_0 |-> f, logDGrid |-> g, tol |-> t, maxIter |-> m,
     EqlogPfun |-> fn]
NoNote == Note(0, NoneFn, NoneGrid, Zero, 0, NoneFn)
NoHistory == [aNrm |-> <<>>, pLvl |-> <<>>, aLvl |-> <<>>]

Init ==
    /\ div = [i \in DivIds |-> NoDiv]
    /\ econ = [e \in EconIds |-> NoEcon]
    /\ pc = "idle"
    /\ self = 0 /\ argPfunc = NoneFn /\ argGrid = NoneGrid
    /\ tol = Zero /\ maxIter = 0 /\ disp = FALSE
    /\ norm = Zero /\ Pfunc_0 = NoneFn /\ logDGrid = <<>>
    /\ Pf_0 = NoneFn /\ P_0 = <<>> /\ it = 0
    /\ out = <<>> /\ ret = Pending
    /\ held = NoClosure /\ noted = NoNote
    /\ history = NoHistory /\ t_now = 0 /\ giant_list = <<>> /\ aGro41 = Zero

\* ------------------------------------------------------- constructors
\* DivProc = DivProcess(alpha, shock_sd, shock_mean, nApprox)
DivProcessInit(i, alpha, shock_sd, shock_mean, nApprox) ==
    /\ pc # "loop"
    /\ ~div[i].made
    /\ div' = [div EXCEPT ![i] = NewDivProcess(alpha, shock_sd, shock_mean, nApprox)]
    /\ pc' = "idle"
    /\ UNCHANGED <<econ, frame, locals, out, ret>>
    /\ UNCHANGED <<held, noted, lifeCycle>>

\* economy = LucasEconomy(CRRA, DiscFac, DivProcess)
LucasEconomyInit(e, CRRA, DiscFac, i) ==
    /\ pc # "loop"
    /\ ~econ[e].made
    /\ div[i].made
    /\ econ' = [econ EXCEPT ![e] = NewEconomy(CRRA, DiscFac, i)]
    /\ pc' = "idle"
    /\ UNCHANGED <<div, frame, locals, out, ret>>
    /\ UNCHANGED <<held, noted, lifeCycle>>

\* -------------------------------------------------------------- solve
\* An initial norm that is not set above tol.
InitNormNoStep(t) == t

\* norm = tol + 1
InitNorm(t) == FAdd(t, One)

\* A while condition whose count is off by one.
LoopCondOffByOne(n, t, i, m) == FGt(n, t) /\ i <= m

\* A condition that ends the loop one pass short of the cap.
LoopCondStopsShort(n, t, i, m) == FGt(n, t) /\ i + 1 < m

\* the while condition: norm > tol and it < maxIter
LoopCond(n, t, i, m) == FGt(n, t) /\ i < m

\* A progress line printed before the counter is advanced.
IterLineFromZero(i, n) == [line |-> "Iter", it |-> i - 1, norm |-> n]

\* the progress line of iteration i: 'Iter:' + str(it) + '   Norm = ' + str(norm)
IterLine(i, n) == [line |-> "Iter", it |-> i, norm |-> n]

\* the status line printed after the loop
Converged == [line |-> "Price function converged!", it |-> 0, norm |-> Zero]
Exceeded == [line |-> "Maximum iterations exceeded!", it |-> 0, norm |-> Zero]
StatusLine(n, t) == IF FLe(n, t) THEN Converged ELSE Exceeded

\* An assignment that lands on every economy built on the same process.
AssignShared(ecs, e, f) ==
    [x \in DOMAIN ecs |->
        IF ecs[x].made /\ ecs[x].DivProcess = ecs[e].DivProcess
        THEN [ecs[x] EXCEPT !.solved = TRUE, !.EqlogPfun = f]
        ELSE ecs[x]]

\* The economies after solve's last two statements on economy e: its EqlogPfun
\* is the current function, its EqPfun the lambda over it.
Assign(ecs, e, f) ==
    [ecs EXCEPT ![e] = [@ EXCEPT !.solved = TRUE, !.EqlogPfun = f]]

\* the grid solve works on: the argument, or the process's default grid
ChosenGrid(g, d) == IF g.isNone THEN GetLogdGrid(d, GridN) ELSE g.a

\* A solve whose default guess is the solution the economy already holds.
SolveCallWarm(e, f, g, t, m, d) ==
    /\ pc # "loop"
    /\ econ[e].made
    /\ self' = e /\ argPfunc' = f /\ argGrid' = g
    /\ tol' = t /\ maxIter' = m /\ disp' = d
    /\ norm' = InitNorm(t)
    /\ Pfunc_0' = IF f # NoneFn THEN f
                  ELSE IF econ[e].solved THEN econ[e].EqlogPfun
                  ELSE ConstantFunction(Zero)
    /\ out' = <<>>
    /\ UNCHANGED <<div, econ>>
    /\ IF g.isNone /\ GetLogdGridRaises(div[econ[e].DivProcess])
       THEN /\ pc' = "raised"
            /\ ret' = Raised
            /\ logDGrid' = <<>> /\ Pf_0' = NoneFn /\ P_0' = <<>> /\ it' = 0
       ELSE /\ pc' = "loop"
            /\ ret' = Pending
            /\ logDGrid' = ChosenGrid(g, div[econ[e].DivProcess])
            /\ Pf_0' = Copy(Pfunc_0')
            /\ P_0' = EvalOn(Pf_0', logDGrid')
            /\ it' = 0
    /\ UNCHANGED <<held, noted, lifeCycle>>

\* economy.solve(Pfunc_0, logDGrid, tol, maxIter, disp), up to the loop: the
\* norm, the defaults of the two optional arguments, the copy of the guess and
\* its prices on the grid.  The default grid raises for a unit-root process.
SolveCall(e, f, g, t, m, d) ==
    /\ pc # "loop"
    /\ econ[e].made
    /\ self' = e /\ argPfunc' = f /\ argGrid' = g
    /\ tol' = t /\ maxIter' = m /\ disp' = d
    /\ norm' = InitNorm(t)
    /\ Pfunc_0' = IF f = NoneFn THEN ConstantFunction(Zero) ELSE f
    /\ out' = <<>>
    /\ UNCHANGED <<div, econ>>
    /\ IF g.isNone /\ GetLogdGridRaises(div[econ[e].DivProcess])
       THEN /\ pc' = "raised"
            /\ ret' = Raised
            /\ logDGrid' = <<>> /\ Pf_0' = NoneFn /\ P_0' = <<>> /\ it' = 0
       ELSE /\ pc' = "loop"
            /\ ret' = Pending
            /\ logDGrid' = ChosenGrid(g, div[econ[e].DivProcess])
            /\ Pf_0' = Copy(Pfunc_0')
            /\ P_0' = EvalOn(Pf_0', logDGrid')
            /\ it' = 0
    /\ UNCHANGED <<held, noted, lifeCycle>>

\* A pass of the loop that also writes the new prices into the arrays of the
\* guess, which the caller's object shares.
SolveIterInPlace ==
    /\ pc = "loop"
    /\ LoopCond(norm, tol, it, maxIter)
    /\ LET Pf_next == priceOnePeriod(econ[self], div[econ[self].DivProcess],
                                     Pf_0, logDGrid)
           P_next == EvalOn(Pf_next, logDGrid)
           written(f) == IF f.kind = "lin" /\ Len(f.y_list) = Len(P_next)
                         THEN [f EXCEPT !.y_list = P_next] ELSE f
       IN  /\ norm' = Norm2([i \in 1..Len(logDGrid) |-> FSub(P_0[i], P_next[i])])
           /\ Pf_0' = Pf_next
           /\ P_0' = P_next
           /\ Pfunc_0' = written(Pfunc_0)
           /\ argPfunc' = written(argPfunc)
    /\ it' = it + 1
    /\ out' = IF disp THEN Append(out, IterLine(it', norm')) ELSE out
    /\ UNCHANGED <<div, econ, pc, self, argGrid, tol, maxIter, disp, logDGrid, ret>>
    /\ UNCHANGED <<held, noted, lifeCycle>>

\* A pass of the loop that measures the new prices but keeps the old function.
SolveIterStale ==
    /\ pc = "loop"
    /\ LoopCond(norm, tol, it, maxIter)
    /\ LET Pf_next == priceOnePeriod(econ[self], div[econ[self].DivProcess],
                                     Pf_0, logDGrid)
           P_next == EvalOn(Pf_next, logDGrid)
       IN  /\ norm' = Norm2([i \in 1..Len(logDGrid) |-> FSub(P_0[i], P_next[i])])
           /\ Pf_0' = Pf_0
           /\ P_0' = P_next
    /\ it' = it + 1
    /\ out' = IF disp THEN Append(out, IterLine(it', norm')) ELSE out
    /\ UNCHANGED <<div, econ, pc, frame, Pfunc_0, logDGrid, ret>>
    /\ UNCHANGED <<held, noted, lifeCycle>>

\* one pass of the while loop
SolveIter ==
    /\ pc = "loop"
    /\ LoopCond(norm, tol, it, maxIter)
    /\ LET Pf_next == priceOnePeriod(econ[self], div[econ[self].DivProcess],
                                     Pf_0, logDGrid)
           P_next == EvalOn(Pf_next, logDGrid)
       IN  /\ norm' = Norm2([i \in 1..Len(logDGrid) |-> FSub(P_0[i], P_next[i])])
           /\ Pf_0' = Pf_next
           /\ P_0' = P_next
    /\ it' = it + 1
    /\ out' = IF disp THEN Append(out, IterLine(it', norm')) ELSE out
    /\ UNCHANGED <<div, econ, pc, frame, Pfunc_0, logDGrid, ret>>
    /\ UNCHANGED <<held, noted, lifeCycle>>

\* the end of solve: the status line, the two attributes, the return
SolveReturn ==
    /\ pc = "loop"
    /\ ~LoopCond(norm, tol, it, maxIter)
    /\ out' = IF disp THEN Append(out, StatusLine(norm, tol)) ELSE out
    /\ econ' = Assign(econ, self, Pf_0)
    /\ pc' = "done"
    /\ ret' = ReturnedNone
    /\ UNCHANGED <<div, frame, locals>>
    /\ UNCHANGED <<held, noted, lifeCycle>>

\* ------------------------------------------------ other calls by the caller
\* economy.priceOnePeriod(f, grid), called directly
CallPriceOnePeriod(e, f, g) ==
    /\ pc # "loop"
    /\ econ[e].made
    /\ pc' = "priced"
    /\ ret' = Ret("priceOnePeriod",
                  priceOnePeriod(econ[e], div[econ[e].DivProcess], f, g), g)
    /\ self' = e /\ argPfunc' = f /\ argGrid' = Arr(g)
    /\ UNCHANGED <<div, econ, tol, maxIter, disp, locals, out>>
    /\ UNCHANGED <<held, noted, lifeCycle>>

\* A getLogdGrid that rebuilds the process's shock with a single node.
CallGetLogdGridRebuilds(i) ==
    /\ pc # "loop"
    /\ div[i].made
    /\ pc' = "gridded"
    /\ self' = i
    /\ div' = [div EXCEPT ![i] = NewDivProcess(@.alpha, @.shock_sd, @.shock_mean, 1)]
    /\ ret' = IF GetLogdGridRaises(div[i]) THEN Raised
              ELSE Ret("getLogdGrid", NoneFn, GetLogdGrid(div[i], GridN))
    /\ UNCHANGED <<econ, argPfunc, argGrid, tol, maxIter, disp, locals, out>>
    /\ UNCHANGED <<held, noted, lifeCycle>>

\* DivProc.getLogdGrid(), called directly
CallGetLogdGrid(i) ==
    /\ pc # "loop"
    /\ div[i].made
    /\ pc' = "gridded"
    /\ self' = i
    /\ ret' = IF GetLogdGridRaises(div[i]) THEN Raised
              ELSE Ret("getLogdGrid", NoneFn, GetLogdGrid(div[i], GridN))
    /\ UNCHANGED <<div, econ, argPfunc, argGrid, tol, maxIter, disp, locals, out>>
    /\ UNCHANGED <<held, noted, lifeCycle>>

\* an economy as its constructor leaves it, with the same three arguments
Fresh(ec) == NewEconomy(ec.CRRA, ec.DiscFac, ec.DivProcess)

\* the Euclidean distance on the grid between f and priceOnePeriod of f
Forward(ec, d, f, grid) ==
    LET Tf == priceOnePeriod(ec, d, f, grid)
    IN  Norm2([i \in 1..Len(grid) |-> FSub(Eval(f, grid[i]), Eval(Tf, grid[i]))])

\* solve as a function of its economy, process and arguments: the function it
\* leaves in EqlogPfun
RECURSIVE SolveLoop(_, _, _, _, _, _)
SolveLoop(ec, d, grid, t, m, st) ==
    IF LoopCond(st.norm, t, st.it, m)
    THEN LET Pf_next == priceOnePeriod(ec, d, st.Pf_0, grid)
             P_next == EvalOn(Pf_next, grid)
             n == Norm2([i \in 1..Len(grid) |-> FSub(st.P_0[i], P_next[i])])
         IN  SolveLoop(ec, d, grid, t, m,
                       [Pf_0 |-> Pf_next, P_0 |-> P_next, norm |-> n, it |-> st.it + 1])
    ELSE st.Pf_0
SolveFn(ec, d, f, g, t, m) ==
    LET guess == IF f = NoneFn THEN ConstantFunction(Zero) ELSE f
        grid == ChosenGrid(g, d)
    IN  SolveLoop(ec, d, grid, t, m,
                  [Pf_0 |-> Copy(guess), P_0 |-> EvalOn(Copy(guess), grid),
                   norm |-> InitNorm(t), it |-> 0])

\* economy.EqPfun(np.exp(g)) on an array g of log-dividends, as the notebook's
\* EqPfun(dGrid); an economy that was never solved has no such attribute.
CallEqPfun(e, g) ==
    /\ pc # "loop"
    /\ econ[e].made
    /\ pc' = "evaluated"
    /\ self' = e /\ argPfunc' = NoneFn /\ argGrid' = Arr(g)
    /\ ret' = IF econ[e].solved
              THEN Prices([i \in 1..Len(g) |-> EqPfun(econ[e], NpExp(g[i]))])
              ELSE AttributeError
    /\ UNCHANGED <<div, econ, tol, maxIter, disp, locals, out>>
    /\ UNCHANGED <<held, noted, lifeCycle>>

\* ----------------------------------------------------- specifications
\* One process and one economy, every kind of argument.
Next ==
    \/ \E a \in Alphas, sd \in ShockSds, mu \in ShockMeans, n \in NApproxs :
           DivProcessInit(1, a, sd, mu, n)
    \/ \E c \in CRRAs, b \in DiscFacs : LucasEconomyInit(1, c, b, 1)
    \/ \E f \in Guesses, g \in GridArgs, t \in Tols, m \in MaxIters, d \in BOOLEAN :
           SolveCall(1, f, g, t, m, d)
    \/ SolveIter
    \/ SolveReturn
    \/ \E f \in Guesses \ {NoneFn}, g \in GridArgs :
           ~g.isNone /\ CallPriceOnePeriod(1, f, g.a)
    \/ CallGetLogdGrid(1)
    \/ \E g \in LogDArrays : CallEqPfun(1, g)

Spec == Init /\ [][Next]_vars

\* Two processes and two economies of different risk aversion, as the notebook's
\* LowCrraEcon and HighCrraEcon, solved from the default guess.
NextTwo ==
    \/ \E i \in DivIds, sd \in ShockSds, mu \in ShockMeans, n \in NApproxs :
           DivProcessInit(i, IF i = 1 THEN 1 ELSE 0, sd, mu, n)
    \/ \E e \in EconIds, i \in DivIds : LucasEconomyInit(e, e, Half, i)
    \/ \E e \in EconIds, g \in GridArgs, t \in Tols, m \in MaxIters \ {0} :
           SolveCall(e, NoneFn, g, t, m, FALSE)
    \/ SolveIter
    \/ SolveReturn

SpecTwo == Init /\ [][NextTwo]_vars

\* One process of any mean and standard deviation and its economy, solved with
\* solve's defaults.
DefaultSds == 1..2
DefaultMeans == -2..2
NextDefaults ==
    \/ \E a \in Alphas, sd \in DefaultSds, mu \in DefaultMeans, n \in NApproxs :
           DivProcessInit(1, a, sd, mu, n)
    \/ \E c \in CRRAs : LucasEconomyInit(1, c, Half, 1)
    \/ \E m \in {0, 1} : SolveCall(1, NoneFn, NoneGrid, NineEighths, m, FALSE)
    \/ SolveIter
    \/ SolveReturn
    \/ CallGetLogdGrid(1)

SpecDefaults == Init /\ [][NextDefaults]_vars

\* The notebook's two comparisons with closed forms: an economy with a discount
\* factor of 1/2 or 3/4 on a process with two shock nodes, solved from the
\* default guess on a grid with or without the shock's support on it, to a
\* tolerance of 1/2 in at most ten iterations, and then asked for its prices.
ClosedGrids == {<<0, 1>>, <<-1, 0, 1>>}
ClosedDiscFacs == {Exp(-1), Round(3, -2)}
ClosedMaxIters == {10}
NextClosed ==
    \/ \E a \in Alphas, sd \in ShockSds, mu \in ShockMeans, n \in NApproxs :
           DivProcessInit(1, a, sd, mu, n)
    \/ \E c \in CRRAs, b \in ClosedDiscFacs : LucasEconomyInit(1, c, b, 1)
    \/ \E g \in ClosedGrids, m \in ClosedMaxIters :
           SolveCall(1, NoneFn, Arr(g), Half, m, FALSE)
    \/ SolveIter
    \/ SolveReturn
    \/ \E g \in ClosedGrids : CallEqPfun(1, g)

SpecClosed == Init /\ [][NextClosed]_vars

\* the notebook's analytical solutions.  theta = 1/Disc - 1, aSol = d/theta
theta(ec) == FSub(FDiv(One, ec.DiscFac), One)
aSol(ec, d) == FDiv(d, theta(ec))
\* dTil, the moment E[d'^(1-CRRA)] of next period's dividend, which for the
\* log-normal shock is exp(sd^2/2 * CRRA * (CRRA-1)): here the moment of the
\* process's discrete shock; aSolIID = d^CRRA * dTil * Disc/(1 - Disc)
dTil(ec, d) ==
    FSum([j \in 1..Len(d.X) |->
             FMul(d.pmf[j], CRRAutilityP(NpExp(d.X[j]), ec.CRRA - 1))])
aSolIID(ec, d, lvl) ==
    FMul(FMul(FPow(lvl, ec.CRRA), dTil(ec, d)),
         FDiv(ec.DiscFac, FSub(One, ec.DiscFac)))

\* ------------------------------------------------ a kept EqPfun
\* A lambda that took the economy's EqlogPfun when it was made.
CallClosureEarly(cl, ecs, d) == EvalF(cl.made, NpLog(d))

\* calling the lambda: it looks up self.EqlogPfun when it is called
CallClosure(cl, ecs, d) == EqPfun(ecs[cl.self], d)

\* f = economy.EqPfun: the caller keeps the function object of a solved economy
TakeEqPfun(e) ==
    /\ pc # "loop"
    /\ econ[e].made /\ econ[e].solved
    /\ held' = Closure(e, econ[e].EqlogPfun)
    /\ pc' = "taken"
    /\ UNCHANGED <<div, econ, frame, locals, out, ret, noted, lifeCycle>>

\* f(np.exp(g)) on an array g of log-dividends, with the function kept earlier;
\* what the last solve left behind is kept for comparison
CallHeld(g) ==
    /\ pc # "loop"
    /\ held.self # 0
    /\ pc' = "evaluated held"
    /\ ret' = [Prices([i \in 1..Len(g) |-> CallClosure(held, econ, NpExp(g[i]))])
                  EXCEPT !.grid = g]
    /\ UNCHANGED <<div, econ, frame, locals, out, held, noted, lifeCycle>>

\* One stationary or unit-root process and its economy, solved again and again
\* on a given grid from different guesses and with different caps and
\* tolerances, by a caller who keeps an EqPfun and calls it later.
NextHeld ==
    \/ \E a \in Alphas, sd \in ShockSds, mu \in ShockMeans, n \in NApproxs :
           DivProcessInit(1, a, sd, mu, n)
    \/ \E c \in CRRAs : LucasEconomyInit(1, c, Half, 1)
    \/ \E f \in Guesses, t \in Tols, m \in MaxIters :
           SolveCall(1, f, UnitGrid, t, m, FALSE)
    \/ SolveIter
    \/ SolveReturn
    \/ TakeEqPfun(1)
    \/ \E g \in LogDArrays : CallHeld(g)

SpecHeld == Init /\ [][NextHeld]_vars

\* ------------------------------------------------ a solve repeated
\* first = economy.EqlogPfun after a solve: the caller notes what that solve
\* was given and what it stored
NoteSolution ==
    /\ pc = "done"
    /\ noted' = Note(self, argPfunc, argGrid, tol, maxIter, econ[self].EqlogPfun)
    /\ pc' = "noted"
    /\ UNCHANGED <<div, econ, frame, locals, out, ret, held, lifeCycle>>

\* One process and its economy, solved again and again with every kind of
\* guess, grid and cap by a caller who notes one of the solves.
NextAgain ==
    \/ \E a \in Alphas, sd \in ShockSds, mu \in ShockMeans, n \in NApproxs :
           DivProcessInit(1, a, sd, mu, n)
    \/ \E c \in CRRAs : LucasEconomyInit(1, c, Half, 1)
    \/ \E f \in Guesses, g \in GridArgs, m \in MaxIters :
           SolveCall(1, f, g, NineEighths, m, FALSE)
    \/ SolveIter
    \/ SolveReturn
    \/ NoteSolution

SpecAgain == Init /\ [][NextAgain]_vars

\* ------------------------------------------------- the life-cycle cells
\* The simulated population is one agent followed over periods 0..T_cycle,
\* with asset ratios and permanent income levels that are powers of two;
\* permanent income starts at exp(pLvlInitMean) = 1.
T_cycle == 2
LogLevels == -1..1
Levels == {Exp(l) : l \in LogLevels}
Histories ==
    {[aNrm |-> a, pLvl |-> p, aLvl |-> <<>>] :
        a \in [0..T_cycle -> Levels],
        p \in {q \in [0..T_cycle -> Levels] : q[0] = One}}

\* the state after LifeCyclePop.simulate()
InitLifeCycle ==
    /\ div = [i \in DivIds |-> NoDiv]
    /\ econ = [e \in EconIds |-> NoEcon]
    /\ pc = "idle"
    /\ self = 0 /\ argPfunc = NoneFn /\ argGrid = NoneGrid
    /\ tol = Zero /\ maxIter = 0 /\ disp = FALSE
    /\ norm = Zero /\ Pfunc_0 = NoneFn /\ logDGrid = <<>>
    /\ Pf_0 = NoneFn /\ P_0 = <<>> /\ it = 0
    /\ out = <<>> /\ ret = Pending
    /\ held = NoClosure /\ noted = NoNote
    /\ history \in Histories
    /\ t_now = 0 /\ giant_list = <<>> /\ aGro41 = Zero

\* np.log((aNrm[t] * pLvl[t]) / aNrm[t-1] * pLvl[t-1]), as Python groups it
aLvlGroNow(h, t) ==
    NpLog(FMul(FDiv(FMul(h.aNrm[t], h.pLvl[t]), h.aNrm[t - 1]), h.pLvl[t - 1]))

\* the row of period t, of which the period, the asset ratio and the asset
\* growth are kept here
matrix_list(h, t) == [t |-> t, aNrm |-> h.aNrm[t], aLvlGroNow |-> aLvlGroNow(h, t)]

\* one pass of `for t in range(1, T_cycle+1)`; the first one follows the
\* allocation of giant_list
GiantListPass ==
    /\ t_now < T_cycle
    /\ t_now' = t_now + 1
    /\ LET rows == IF t_now = 0 THEN [y \in 1..T_cycle |-> <<0>>] ELSE giant_list
       IN  giant_list' = [rows EXCEPT ![t_now'] = matrix_list(history, t_now')]
    /\ UNCHANGED <<div, econ, pc, frame, locals, out, ret, held, noted, history, aGro41>>

\* the period whose growth factor the next cell computes (41 in the notebook)
GroPeriod == T_cycle

\* history['aLvl'] = history['aNrm'] * history['pLvl'];
\* aGro41 = history['aLvl'][41] / history['aLvl'][40]
AGro41Cell ==
    /\ t_now = T_cycle
    /\ DOMAIN history.aLvl = {}
    /\ history' = [history EXCEPT
                      !.aLvl = [k \in 0..T_cycle |-> FMul(history.aNrm[k], history.pLvl[k])]]
    /\ aGro41' = FDiv(history'.aLvl[GroPeriod], history'.aLvl[GroPeriod - 1])
    /\ UNCHANGED <<div, econ, pc, frame, locals, out, ret, held, noted, t_now, giant_list>>

NextLifeCycle == GiantListPass \/ AGro41Cell

SpecLifeCycle == InitLifeCycle /\ [][NextLifeCycle]_vars

\* ============================================================ properties
InSolve == pc \in {"loop", "done"}
theDiv == div[econ[self].DivProcess]

\* ---------------------------------------------------------------- C1
\* C1: when solve stops at the iteration cap with the last norm still above
\* tol, the caller is told, whatever disp is: solve returns something other
\* than None, or leaves the economy without a solution, or at least prints the
\* non-convergence line.
C1_NonConvergenceSurfaced ==
    (pc = "done" /\ it >= 1 /\ it = maxIter /\ FGt(norm, tol))
        => \/ ret # ReturnedNone
           \/ ~econ[self].solved
           \/ \E j \in 1..Len(out) : out[j] = Exceeded

\* ---------------------------------------------------------------- C2
\* C2: every step of the loop is an iteration exactly when the norm is strictly
\* above tol and fewer than maxIter iterations have run; an iteration applies
\* priceOnePeriod once to the current function and its norm is the Euclidean
\* distance between the old and the new function on the grid; any other step
\* ends the loop with the function and the count as they are.
C2_Step ==
    pc = "loop" =>
        /\ (it' = it + 1) <=> (FGt(norm, tol) /\ it < maxIter)
        /\ it' = it + 1 =>
              /\ pc' = "loop"
              /\ Pf_0' = priceOnePeriod(econ[self], theDiv, Pf_0, logDGrid)
              /\ norm' = Norm2([i \in 1..Len(logDGrid) |->
                               FSub(Eval(Pf_0, logDGrid[i]), Eval(Pf_0', logDGrid[i]))])
        /\ it' # it + 1 => pc' = "done" /\ UNCHANGED <<Pf_0, it, norm>>
C2_LoopStructure == [][C2_Step]_vars

\* a run that stopped before the cap, at its first norm at or below tol
C2_Witness == pc = "done" /\ it >= 1 /\ it < maxIter /\ FLe(norm, tol)

C3_State ==
    /\ InSolve => it <= maxIter
    /\ (pc = "done" /\ maxIter >= 1 /\ FGt(FAdd(tol, One), tol)) => it >= 1
C3_Act ==
    /\ pc = "loop" => \/ pc' = "loop" /\ it' = it + 1 /\ it' <= maxIter
                      \/ pc' = "done" /\ it' = it
    /\ pc = "done" => \/ UNCHANGED <<it, Pf_0, econ>>
                      \/ pc' \in {"loop", "raised"} /\ it' = 0
C4_StoredOnGrid ==
    pc = "done" =>
        /\ econ[self].EqlogPfun.kind = "lin"
        /\ econ[self].EqlogPfun.x_list = ChosenGrid(argGrid, theDiv)

\* C4, amended: during a solve the grid is the one chosen at the start and no
\* step changes it; after at least one iteration the current function, and at
\* the end the stored one, is an interpolant over exactly that grid; with no
\* iteration the current and the stored function are the copy of the guess.
C4_State ==
    InSolve =>
        /\ logDGrid = ChosenGrid(argGrid, theDiv)
        /\ it >= 1 => Pf_0.kind = "lin" /\ Pf_0.x_list = logDGrid
        /\ it = 0 => Pf_0 = Copy(Pfunc_0)
        /\ pc = "done" => econ[self].EqlogPfun = Pf_0
C4_Act ==
    pc = "loop" =>
        /\ logDGrid' = logDGrid
        /\ (it >= 1 /\ it' = it + 1) => Pf_0'.x_list = Pf_0.x_list
C4_GridFixed == [](C4_State) /\ [][C4_Act]_vars

\* a finished run of two iterations on the default grid
C4_Witness ==
    /\ pc = "done" /\ it = 2 /\ argGrid.isNone
    /\ econ[self].EqlogPfun.x_list = GetLogdGrid(theDiv, GridN)

\* ---------------------------------------------------------------- C5
\* C5: a call of priceOnePeriod, direct or from solve's loop, changes neither
\* the economies (parameters and stored solutions) nor the dividend processes,
\* and solve's loop leaves the caller's function and grid as they were; what a
\* direct call returns is what an economy newly built with the same CRRA,
\* DiscFac and process returns for the same function and grid.
C5_State ==
    pc = "priced" =>
        /\ ret.fn = priceOnePeriod(Fresh(econ[self]), theDiv, argPfunc, argGrid.a)
        /\ ret.fn.x_list = argGrid.a
C5_Act ==
    /\ pc' = "priced" => UNCHANGED <<div, econ>>
    /\ (pc = "loop" /\ pc' = "loop") =>
           UNCHANGED <<div, econ, argPfunc, argGrid, Pfunc_0, logDGrid>>
C5_NoSideEffects == [](C5_State) /\ [][C5_Act]_vars

\* a direct call on an economy that holds a solution different from the
\* function passed
C5_Witness ==
    /\ pc = "priced" /\ econ[self].solved
    /\ econ[self].EqlogPfun # argPfunc
    /\ ret.fn.kind = "lin"

\* ---------------------------------------------------------------- C6
\* C6: solve never writes into a pricing function: through the loop and the
\* return the caller's guess and grid objects stay as passed, solve's own name
\* for the guess still shows the caller's object, and an iteration puts a newly
\* built interpolant, with its prices on the grid, in place of the current one.
C6_State ==
    InSolve =>
        /\ argPfunc # NoneFn => Pfunc_0 = argPfunc
        /\ ~argGrid.isNone => logDGrid = argGrid.a
C6_Act ==
    pc = "loop" =>
        /\ UNCHANGED <<argPfunc, argGrid, Pfunc_0>>
        /\ it' = it + 1 =>
              /\ Pf_0'.kind = "lin" /\ Pf_0' # Pf_0
              /\ P_0' = EvalOn(Pf_0', logDGrid)
C6_NoInPlaceMutation == [](C6_State) /\ [][C6_Act]_vars

\* a finished run of two iterations from the caller's own guess and grid
C6_Witness ==
    /\ pc = "done" /\ it = 2
    /\ argPfunc = Guess /\ ~argGrid.isNone
    /\ Pf_0 # argPfunc

\* ---------------------------------------------------------------- C7
\* C7: an economy whose discount factor lies outside (0,1) never gets as far as
\* an iteration of solve and never holds a solution.
Malformed(ec) == ~(FGt(ec.DiscFac, Zero) /\ FGt(One, ec.DiscFac))
C7_FailFast ==
    \A e \in EconIds :
        (econ[e].made /\ Malformed(econ[e])) =>
            /\ ~econ[e].solved
            /\ (InSolve /\ self = e) => it = 0

\* ---------------------------------------------------------------- C8
\* C8: after solve, one more priceOnePeriod on the same grid moves the stored
\* EqlogPfun by a Euclidean norm of at most tol; stated for the runs most
\* favourable to it, those that iterated and whose last norm is at or below tol.
C8_Idempotent ==
    (pc = "done" /\ it >= 1 /\ FLe(norm, tol)) =>
        FLe(Forward(econ[self], theDiv, econ[self].EqlogPfun, logDGrid), tol)

\* ---------------------------------------------------------------- C9
\* C9: only the end of a solve on an economy changes that economy, so a solve
\* on one economy leaves the other's EqlogPfun, and EqPfun at every dividend,
\* as they were, also when both are built on one process; and what a solve
\* stores is what its own economy's parameters, process and arguments give,
\* whatever the other economy holds.
Probe == {Exp(x) : x \in -3..3}
C9_State ==
    pc = "done" =>
        econ[self].EqlogPfun =
            SolveFn(Fresh(econ[self]), theDiv, argPfunc, argGrid, tol, maxIter)
C9_Act ==
    \A e \in EconIds :
        (econ[e].made /\ ~(pc = "loop" /\ pc' = "done" /\ self = e)) =>
            /\ econ'[e] = econ[e]
            /\ econ[e].solved =>
                  \A d \in Probe : EqPfun(econ'[e], d) = EqPfun(econ[e], d)
C9_Independent == [](C9_State) /\ [][C9_Act]_vars

\* two economies on one process, both solved, with different solutions
C9_Witness ==
    /\ pc = "done"
    /\ econ[1].solved /\ econ[2].solved
    /\ econ[1].DivProcess = econ[2].DivProcess
    /\ econ[1].EqlogPfun # econ[2].EqlogPfun

\* --------------------------------------------------------------- C10
\* C10: no step changes a dividend process that has been constructed: its
\* alpha, shock_sd, shock_mean, nApprox, shock nodes and probabilities stay.
C10_Act == \A i \in DivIds : div[i].made => div'[i] = div[i]
C10_DivProcessImmutable == [][C10_Act]_vars

\* getLogdGrid called on the process of an economy that has been solved
C10_Witness ==
    /\ pc = "gridded" /\ ret.kind = "getLogdGrid"
    /\ econ[1].solved /\ econ[1].EqlogPfun.kind = "lin"
    /\ div[1] = NewDivProcess(0, 1, 0, 2)

\* --------------------------------------------------------------- C11
\* the line through the first two points of an interpolant, at x
LineAt(f, x) ==
    LET a == FDiv(Flt(x - f.x_list[1]), Flt(f.x_list[2] - f.x_list[1]))
    IN  FAdd(FMul(FSub(One, a), f.y_list[1]), FMul(a, f.y_list[2]))
Finite(f) == \A i \in 1..Len(f.y_list) : IsFin(f.y_list[i])
\* f, evaluated one and four bits below its grid, gives the value on that line,
\* a number when the prices on the grid are numbers
Extrapolates(f) ==
    /\ f.kind = "lin"
    /\ \A x \in {f.x_list[1] - 1, f.x_list[1] - 4} :
          /\ Eval(f, x) = LineAt(f, x)
          /\ Finite(f) => IsFin(Eval(f, x))

\* C11 as stated: the function solve stores, evaluated below the minimum of the
\* grid, gives a value and not a nan.
C11_StoredExtrapolates ==
    pc = "done" =>
        \A x \in {logDGrid[1] - 1, logDGrid[1] - 4} :
            ~IsNaN(Eval(econ[self].EqlogPfun, x))

\* C11, amended: every function priceOnePeriod returns, so every iterate of
\* solve and the function solve stores after at least one iteration,
\* extrapolates linearly below its grid and raises nothing; an iteration that
\* evaluates such an iterate with numbers on the grid, also below the grid,
\* gives numbers again.  (With no iteration the stored function is the copy
\* of the guess and evaluates as the guess does.)
C11_State ==
    /\ pc = "priced" => Extrapolates(ret.fn)
    /\ (InSolve /\ it >= 1) => Extrapolates(Pf_0)
    /\ (pc = "done" /\ it >= 1) => Extrapolates(econ[self].EqlogPfun)
    /\ ret.kind # "ZeroDivisionError" => pc # "raised"
C11_Act ==
    (pc = "loop" /\ it >= 1 /\ it' = it + 1 /\ Finite(Pf_0)) => Finite(Pf_0')
C11_Extrapolation == [](C11_State) /\ [][C11_Act]_vars

\* a second iteration that looked below the grid and found numbers
C11_Witness ==
    /\ pc = "done" /\ it = 2 /\ Finite(econ[self].EqlogPfun)
    /\ \E i \in 1..Len(logDGrid), j \in 1..theDiv.nApprox :
          theDiv.alpha * logDGrid[i] + theDiv.X[j] < logDGrid[1]

\* --------------------------------------------------------------- C12
\* the pricing equation at the state x: DiscFac times the sum over the shock
\* nodes (e_j, p_j) of p_j * [u'(d') / u'(d)] * (f(alpha*x + e_j) + d')
Summand(ec, d, f, x, j) ==
    LET dNow == Exp(x)
        xNext == d.alpha * x + d.X[j]
        dNext == Exp(xNext)
        ratio == FDiv(CRRAutilityP(dNext, ec.CRRA), CRRAutilityP(dNow, ec.CRRA))
    IN  FMul(FMul(d.pmf[j], ratio), FAdd(Eval(f, xNext), dNext))
PricingEquation(ec, d, f, x) ==
    FMul(ec.DiscFac, FSum([j \in 1..Len(d.X) |-> Summand(ec, d, f, x, j)]))
\* the size of the equation's terms at x, against which rounding is measured
Magnitude(a) == IF IsFin(a) THEN [a EXCEPT !.m = Abs(a.m)] ELSE a
Scale(ec, d, f, x) ==
    FMul(Magnitude(ec.DiscFac),
         FSum([j \in 1..Len(d.X) |-> Magnitude(Summand(ec, d, f, x, j))]))
\* a and b are the same number up to the rounding of a few operations on
\* numbers of the size s: within 2^(2-Mant) of s of each other
SameUpToRounding(a, b, s) ==
    \/ a = b
    \/ /\ IsFin(a) /\ IsFin(b) /\ IsFin(s)
       /\ FLe(Magnitude(FSub(a, b)), FMul(Exp(2 - Mant), s))
OnGrid(ec, d, f, grid, Tf) ==
    /\ Tf.x_list = grid
    /\ \A i \in 1..Len(grid) :
          SameUpToRounding(Tf.y_list[i], PricingEquation(ec, d, f, grid[i]),
                           Scale(ec, d, f, grid[i]))

\* C12: at every grid point, what priceOnePeriod assigns, called directly or
\* from solve's loop, is the pricing equation's value for the function it was
\* given, the marginal-utility ratio u'(d')/u'(d) standing where the code
\* evaluates u'(d'/d) and DiscFac multiplying the sum where the code multiplies
\* each term; the two are the same number up to floating-point rounding.
C12_State ==
    pc = "priced" => OnGrid(econ[self], theDiv, argPfunc, argGrid.a, ret.fn)
C12_Act ==
    (pc = "loop" /\ it' = it + 1) => OnGrid(econ[self], theDiv, Pf_0, logDGrid, Pf_0')
C12_PricingEquation == [](C12_State) /\ [][C12_Act]_vars

\* a direct call whose result has different numbers at the grid points
C12_Witness ==
    /\ pc = "priced" /\ Finite(ret.fn)
    /\ ret.fn.y_list[1] # ret.fn.y_list[2]
    /\ econ[self].CRRA = 2

InExpRange(x) == 0 - ExpMax <= x /\ x <= ExpMax
SymmetricGrid(g, n, mean, sd) ==
    /\ Len(g) = n
    /\ \A i \in 1..(n - 1) : g[i] < g[i + 1]
    /\ \A i \in 1..n : g[i] + g[n + 1 - i] = 2 * mean
    /\ g[1] = mean - 5 * sd /\ g[n] = mean + 5 * sd

Within(a, b, t) == FLe(Magnitude(FSub(a, b)), t)

\* C15: with log utility (CRRA = 1), the function a solve has converged to is
\* within tol of d/theta, theta = 1/DiscFac - 1, at every point of the grid.
C15_LogUtility ==
    (pc = "done" /\ it >= 1 /\ FLe(norm, tol) /\ econ[self].CRRA = 1) =>
        \A i \in 1..Len(logDGrid) :
            Within(Eval(econ[self].EqlogPfun, logDGrid[i]),
                   aSol(econ[self], NpExp(logDGrid[i])), tol)

\* --------------------------------------------------------------- C16
\* C16: with i.i.d. dividends (alpha = 0) and CRRA = 2 as in the notebook's
\* test, the function a solve has converged to is within tol of
\* d^CRRA * dTil * DiscFac/(1-DiscFac) at every point of the grid.
C16_IID ==
    (pc = "done" /\ it >= 1 /\ FLe(norm, tol)
        /\ theDiv.alpha = 0 /\ econ[self].CRRA = 2) =>
        \A i \in 1..Len(logDGrid) :
            Within(Eval(econ[self].EqlogPfun, logDGrid[i]),
                   aSolIID(econ[self], theDiv, NpExp(logDGrid[i])), tol)

\* --------------------------------------------------------------- C17
\* priceOnePeriod applied k times, on the same grid, starting from f
RECURSIVE Iterate(_, _, _, _, _)
Iterate(ec, d, f, grid, k) ==
    IF k = 0 THEN f
    ELSE priceOnePeriod(ec, d, Iterate(ec, d, f, grid, k - 1), grid)

Distance(f, g, grid) ==
    Norm2([i \in 1..Len(grid) |-> FSub(Eval(f, grid[i]), Eval(g, grid[i]))])

\* C17: when solve has returned after `it` passes of the loop, EqlogPfun is
\* priceOnePeriod applied `it` times to the copy of the guess; after at least
\* one pass the norm is its distance on the grid to the iterate before it, and
\* after none it is the copy of the guess.
C17_NewestIterate ==
    pc = "done" =>
        LET ec == econ[self]
            guess == Copy(Pfunc_0)
        IN  /\ ec.EqlogPfun = Iterate(ec, theDiv, guess, logDGrid, it)
            /\ it = 0 => ec.EqlogPfun = guess
            /\ it >= 1 =>
                   norm = Distance(Iterate(ec, theDiv, guess, logDGrid, it - 1),
                                   ec.EqlogPfun, logDGrid)

C17_Witness ==
    /\ pc = "done" /\ it >= 2
    /\ econ[self].EqlogPfun = Iterate(econ[self], theDiv, Copy(Pfunc_0), logDGrid, it)
    /\ econ[self].EqlogPfun #
           Iterate(econ[self], theDiv, Copy(Pfunc_0), logDGrid, it - 1)

\* --------------------------------------------------------------- C18
\* the first k lines are the progress lines of passes 1, 2, ..., k
Numbered(lines, k) ==
    \A i \in 1..k : lines[i].line = "Iter" /\ lines[i].it = i

\* the norm the status line reports on: the one the last pass printed, or the
\* initial one when no pass was made
LastNorm == IF it >= 1 THEN out[it].norm ELSE InitNorm(tol)

aLvlGro(h, t) ==
    FDiv(FMul(h.aNrm[t], h.pLvl[t]), FMul(h.aNrm[t - 1], h.pLvl[t - 1]))

\* C19: the asset growth gathered for each period t reached is the logarithm
\* of aLvl[t] / aLvl[t-1], aLvl = aNrm * pLvl, and for the period of aGro41 it
\* is the logarithm of aGro41.
C19_LogGrowth ==
    /\ \A t \in 1..t_now :
           giant_list[t].aLvlGroNow = NpLog(aLvlGro(history, t))
    /\ DOMAIN history.aLvl # {} =>
           giant_list[GroPeriod].aLvlGroNow = NpLog(aGro41)

\* --------------------------------------------------------------- C20
\* the prices a function of log-dividends gives at the levels exp(g)
LevelPrices(f, g) == [i \in 1..Len(g) |-> EvalF(f, NpLog(NpExp(g[i])))]

\* C20: a solve that has returned leaves its last function in EqlogPfun, and a
\* kept EqPfun, whenever it is called, gives the prices of the function the
\* most recent solve of its economy ended with.
C20_LateBinding ==
    /\ pc = "done" => econ[self].solved /\ econ[self].EqlogPfun = Pf_0
    /\ pc = "evaluated held" =>
           /\ held.self = self
           /\ econ[self].EqlogPfun = Pf_0
           /\ ret.val = LevelPrices(Pf_0, ret.grid)

\* a kept EqPfun called after a later solve has replaced the solution it was
\* made with, giving other prices than that solution's
C20_Witness ==
    /\ pc = "evaluated held"
    /\ held.made # econ[held.self].EqlogPfun
    /\ ret.val = LevelPrices(econ[held.self].EqlogPfun, ret.grid)
    /\ ret.val # LevelPrices(held.made, ret.grid)

\* --------------------------------------------------------------- C21
\* C21 as stated: a solve that ended with its norm not at or below tol made
\* exactly maxIter passes of the loop.
C21_ExactlyMaxIter ==
    (pc = "done" /\ ~FLe(norm, tol)) => it = maxIter

\* C21, amended: a solve that ended with its norm not at or below tol made
\* exactly maxIter passes, unless its norm is nan, which is neither above nor
\* at or below tol and ends the loop at once.
C21_ExceededOrNaN ==
    (pc = "done" /\ ~FLe(norm, tol)) => (it = maxIter \/ IsNaN(norm))

\* a run that used its whole cap and ended with a number above tol
C21_Witness ==
    /\ pc = "done" /\ it >= 2 /\ it = maxIter
    /\ ~IsNaN(norm) /\ FGt(norm, tol)

\* --------------------------------------------------------------- C22
\* the solve that has just returned was given what the noted one was given
SameCall ==
    /\ noted.self = self
    /\ noted.Pfunc_0 = argPfunc /\ noted.logDGrid = argGrid
    /\ noted.tol = tol /\ noted.maxIter = maxIter

\* C22: a solve called with the economy and arguments of a solve noted
\* earlier, whatever was solved in between and whatever the economy held,
\* stores a function with the same grid and the same values; and what any
\* solve stores is what an economy holding no solution would store.
C22_NoWarmStart ==
    /\ (pc = "done" /\ SameCall) =>
           /\ econ[self].EqlogPfun.x_list = noted.EqlogPfun.x_list
           /\ econ[self].EqlogPfun.y_list = noted.EqlogPfun.y_list
           /\ econ[self].EqlogPfun = noted.EqlogPfun
    /\ pc = "done" =>
           SolveFn(econ[self], theDiv, argPfunc, argGrid, tol, maxIter) =
               SolveFn(Fresh(econ[self]), theDiv, argPfunc, argGrid, tol, maxIter)

\* a repeated solve that iterated and stored numbers on its grid
C22_Witness ==
    /\ pc = "done" /\ SameCall /\ it >= 2
    /\ econ[self].EqlogPfun = noted.EqlogPfun
    /\ econ[self].EqlogPfun.kind = "lin" /\ Finite(econ[self].EqlogPfun)

====
